---- MODULE Spec2Model ----
(***************************************************************************)
(* A model of orsted_excel_calculation.py: the upstream-tree sheet writer  *)
(* (Path, UpstreamTreeSheet), the parameter override parser / applier of   *)
(* Lco2Modeler, and main.                                                  *)
(*                                                                         *)
(* Python values are modelled as follows.  None is the string "None", or a *)
(* value of its own where a number or an object is expected.               *)
(* A float is an exact fraction <<numerator, denominator>> in lowest terms *)
(* with a positive denominator; the product and the quotient of two floats *)
(* are rounded to the nearest binary float of MantissaBits bits (a double   *)
(* has 53).  A spreadsheet is a function from <<row, column>> to the value  *)
(* last written there.                                                     *)
(***************************************************************************)
EXTENDS Integers, Sequences, FiniteSets, TLC

VARIABLES
    tree,              \* UpstreamTreeSheet.tree: root, result(), provider(), childs()
    max_depth,         \* UpstreamTreeSheet.MAX_DEPTH of the instance
    min_contribution,  \* UpstreamTreeSheet.MIN_CONTRIBUTION of the instance
    row_ceiling,       \* the row number at which traverse stops writing
    total_result,      \* UpstreamTreeSheet.total_result
    max_column,        \* UpstreamTreeSheet.max_column
    row_index,         \* UpstreamTreeSheet.row_index
    results,           \* UpstreamTreeSheet.results
    sheet,             \* UpstreamTreeSheet.sheet: <<row, column>> -> cell value
    stack,             \* the paths whose traverse call is pending, next call first
    visits,            \* the paths handed to write, in call order
    asked,             \* the paths whose node was handed to tree.childs
    pc,                \* position of write_sheet: "init", "traverse", "done"
    grids,             \* the sheet as each call of write_sheet left it
    alpha,             \* the alpha script's sheet, counter and exception
    warning,           \* Lco2Modeler.warning
    first_run,         \* what an earlier Lco2Modeler on the same workbook parsed
    header_row,        \* row 0 of the sheet 'Parameters check'
    lastRowNum,        \* sheet.lastRowNum of the sheet 'Parameters check'
    rows_read,         \* the data rows of the sheet handed to parse_parameter so far
    columns,           \* parse_workbook_parameters: columns
    parameters,        \* parse_workbook_parameters: parameters
    row_num,           \* parse_workbook_parameters: row_num
    printed,           \* what print has written, in order
    error,             \* the exception that left parse_workbook_parameters, or None
    ppc,               \* position of parse_workbook_parameters:
                       \* "idle", "start", "rows", "returned", "raised"
    new_params,        \* set_systems_parameters: new_params
    loaded,            \* [self.system, self.esg_system] as read by __init__
    systems,           \* [self.system, self.esg_system] in memory
    db,                \* the two systems as stored in the database
    apply_i,           \* set_systems_parameters: systems handled by the for loop
    mpc,               \* position of main
    lca_results,       \* Lco2Modeler.results
    calculations,      \* the calls of calculator.calculate(setup), in order
    impact_categories, \* len(self.ef3_method.impactCategories)
    category_i,        \* get_and_write_contribution_tree: categories handled
    upstream_sheets,   \* the i of the sheets 'Upstream tree %i' created, in order
    target,            \* Lco2Modeler.target: the names of its sheets, in order
    sheet_names,       \* delete_upstream_sheet: sheet_names
    used,              \* the results get_result_no_arg returned, in order
    the_path,          \* a Path object, built by __init__ and append
    counted            \* the last call the_path.count(tech_flow) and what it returned

treeVars == <<tree, max_depth, min_contribution, row_ceiling, total_result,
              max_column, row_index, results, sheet, stack, visits, asked, pc,
              grids, alpha>>

parseVars == <<first_run, warning, header_row, lastRowNum, rows_read, columns, parameters,
               row_num, printed, error, ppc>>

applyVars == <<new_params, loaded, systems, db, apply_i>>

mainVars == <<mpc, lca_results, calculations, impact_categories, category_i,
              upstream_sheets, target, sheet_names, used>>

pathVars == <<the_path, counted>>

vars == <<treeVars, parseVars, applyVars, mainVars, pathVars>>

None == "None"

\* None where a Path is expected (the prefix of a root path).
NoPath == [none |-> TRUE]

\* None where a process descriptor is expected.
NoProcess == [none |-> TRUE]

\* None where a number is expected: the fields of an UpstreamTreeSheet that
\* write_sheet sets before it reads them.
NoNumber == -1

\* No earlier Lco2Modeler has parsed the workbook.
NoRun == [none |-> TRUE]

\* None where an LcaResult is expected.
NoResult == [none |-> TRUE]

\* The alpha script has not written its sheet.
NoAlpha == [pc |-> "init"]

\* No call of Path.count was made.
NoCount == [none |-> TRUE]

-----------------------------------------------------------------------------
(* Floats as exact fractions.                                              *)

RECURSIVE gcd(_, _)
gcd(a, b) == IF b = 0 THEN a ELSE gcd(b, a % b)

absInt(n) == IF n < 0 THEN -n ELSE n

\* n / d for d # 0, in lowest terms with a positive denominator.
Div(n, d) ==
    LET g == gcd(absInt(n), absInt(d))
        s == IF d < 0 THEN -1 ELSE 1
    IN  <<(s * n) \div g, (s * d) \div g>>

Float(n) == <<n, 1>>

abs(q) == <<absInt(q[1]), q[2]>>

Less(p, q) == p[1] * q[2] < q[1] * p[2]

\* The bits of the mantissa of a float
MantissaBits == 14

\* The integers below FloatLimit are floats.
FloatLimit == 2^MantissaBits

\* n / d for n, d > 0 as m * 2^e with 2^(MantissaBits-1) <= m < 2^MantissaBits,
\* m the nearest integer, the even one of two nearest.
RECURSIVE RoundScaled(_, _, _)
RoundScaled(n, d, e) ==
    IF n < 2^(MantissaBits - 1) * d THEN RoundScaled(2 * n, d, e - 1)
    ELSE IF n >= 2^MantissaBits * d THEN RoundScaled(n, 2 * d, e + 1)
    ELSE LET floor == n \div d
             rest == n - floor * d
             m == IF 2 * rest > d \/ (2 * rest = d /\ floor % 2 = 1)
                  THEN floor + 1 ELSE floor
         IN  IF e >= 0 THEN Div(m * 2^e, 1) ELSE Div(m, 2^(-e))

\* The float nearest to the fraction q
double(q) ==
    IF q[1] = 0 THEN q
    ELSE LET r == RoundScaled(absInt(q[1]), q[2], 0)
         IN  IF q[1] < 0 THEN <<-r[1], r[2]>> ELSE r

\* p * q and p / q of floats (q # 0)
fmul(p, q) == double(Div(p[1] * q[1], p[2] * q[2]))

fdiv(p, q) == double(Div(p[1] * q[2], p[2] * q[1]))

-----------------------------------------------------------------------------
(* Program constants.                                                      *)

MAX_DEPTH == 4

MIN_CONTRIBUTION == 0

EXCEL_MAX_ROW == 1048574

\* index_of(letter) = ord(letter) - 65
index_of(letter) ==
    CASE letter = "A" -> 0 [] letter = "B" -> 1 [] letter = "C" -> 2
      [] letter = "D" -> 3 [] letter = "E" -> 4 [] letter = "F" -> 5
      [] letter = "G" -> 6

-----------------------------------------------------------------------------
(* Bounds of the model.  MAX_DEPTH and MIN_CONTRIBUTION are class          *)
(* attributes and the row limit of line 132 is a literal; the model takes  *)
(* all three as parameters of the sheet writer (max_depth,                 *)
(* min_contribution, row_ceiling) that range over the value of the source  *)
(* and a second value, so that each limit is met on small graphs.          *)

\* A second, small depth limit next to MAX_DEPTH.
SmallDepth == 1

\* A second, small row ceiling next to EXCEL_MAX_ROW, so that the cut-off
\* of traverse happens on small graphs.
SmallCeiling == 3

Nodes == {1, 2}

Results == {0, -40, 100}

\* Tech flows; the process of "U" is undefined.
TechFlows == {"A", "B", "U"}

ChildLists == {<<>>} \cup {<<a>> : a \in Nodes} \cup {<<a, b>> : a, b \in Nodes}

Depths == {SmallDepth, MAX_DEPTH}

Ceilings == {SmallCeiling, EXCEL_MAX_ROW}

Fractions == {Float(MIN_CONTRIBUTION), Div(1, 2)}

Trees == [root : {1},
          result : [Nodes -> Results],
          provider : [Nodes -> TechFlows \cup {None}],
          childs : [Nodes -> ChildLists]]

impact_category == [name |-> "Climate change", referenceUnit |-> "kg CO2 eq"]

-----------------------------------------------------------------------------
(* The graph interface: UpstreamNode and TechFlow.                         *)

\* TechFlow.provider(): the process descriptor of a tech flow, or None.
ProcessOf(tech_flow) ==
    IF tech_flow = "U" THEN NoProcess ELSE [name |-> tech_flow]

-----------------------------------------------------------------------------
(* class Path                                                              *)

Path(node, prefix) ==
    [node |-> node,
     prefix |-> prefix,
     length |-> IF prefix = NoPath THEN 0 ELSE 1 + prefix.length]

\* append putting the node on the receiver instead of making a new Path
appendInPlace(path, node) == [path EXCEPT !.node = node]

\* Path.append, lines 92-93
append(path, node) == Path(node, path)

\* count without the call on the prefix
countTerminal(path, tech_flow) ==
    IF tech_flow = tree.provider[path.node] THEN 1 ELSE 0

\* Path.count, lines 95-97
RECURSIVE count(_, _)
count(path, tech_flow) ==
    LET c == IF tech_flow = tree.provider[path.node] THEN 1 ELSE 0
    IN  IF path.prefix # NoPath THEN c + count(path.prefix, tech_flow) ELSE c

-----------------------------------------------------------------------------
(* Excel.cell(sheet, row, column, value)                                   *)

SetCell(s, row, column, value) == (<<row, column>> :> value) @@ s

Text(t) == [kind |-> "text", text |-> t]

Number(q) == [kind |-> "number", value |-> q]

-----------------------------------------------------------------------------
(* class UpstreamTreeSheet                                                 *)

create_header(s) ==
    LET s1 == SetCell(s, 0, index_of("A"),
                      [kind |-> "title", category |-> impact_category.name])
        s2 == SetCell(s1, 1, index_of("A"), Text("Processes"))
        s3 == SetCell(s2, 1, index_of("F"),
                      [kind |-> "result_header", unit |-> impact_category.referenceUnit])
    IN  SetCell(s3, 1, index_of("G"), Text("Percentage [%]"))

\* traverse without the test of line 132
CeilingNeverReached == FALSE

\* traverse, line 132
CeilingReached == row_index >= row_ceiling

\* traverse without the test of line 137
IsZeroIgnored(result) == FALSE

\* traverse, line 137
IsZero(result) == result = 0

\* traverse without the test of lines 139-142
BelowMinContributionOff(result) == FALSE

\* traverse, lines 139-142
BelowMinContribution(result) ==
    /\ total_result # 0
    /\ Less(abs(Div(result, total_result)), min_contribution)

\* traverse without the test of line 146
DepthNeverReached(path) == FALSE

\* line 146 with the limit off by one
DepthReachedOffByOne(path) == path.length > max_depth

\* traverse, line 146
DepthReached(path) == path.length > max_depth - 1

\* line 155 keeping the column of the last written path
maxLatest(a, b) == a

\* write, line 155: max(col_index, self.max_column)
max(a, b) == IF a > b THEN a ELSE b

\* lines 157-160 writing the label on the row before the one just counted
WriteLabelRowBefore(s, path, row) ==
    LET provider == tree.provider[path.node]
    IN  IF provider = None \/ ProcessOf(provider) = NoProcess
        THEN s
        ELSE SetCell(s, row - 1, path.length, Text(ProcessOf(provider).name))

\* write, lines 157-160: the sheet after the label of the node is written
WriteLabel(s, path, row) ==
    LET provider == tree.provider[path.node]
    IN  IF provider = None \/ ProcessOf(provider) = NoProcess
        THEN s
        ELSE SetCell(s, row, path.length, Text(ProcessOf(provider).name))

\* line 127 without the factor 100
PercentageUnscaled(result, total) ==
    IF total # 0 THEN fdiv(Float(result), Float(total)) ELSE Float(0)

\* write_sheet, line 127; the product and the quotient are exact when the
\* product has less than MantissaBits bits and total divides it.
Percentage(result, total) ==
    IF total = 0 THEN Float(0)
    ELSE IF /\ (100 * result) % absInt(total) = 0
            /\ absInt(100 * result) < FloatLimit
    THEN Div(100 * result, total)
    ELSE fdiv(fmul(Float(100), Float(result)), Float(total))

\* write_sheet, lines 125-129: the cells of results i .. len(results) - 1
RECURSIVE WriteResults(_, _)
WriteResults(s, i) ==
    IF i >= Len(results) THEN s
    ELSE LET result == results[i + 1]
             percentage == Percentage(result, total_result)
             s1 == SetCell(s, i + 2, max_column + 1, Number(Float(result)))
             s2 == SetCell(s1, i + 2, max_column + 2, Number(percentage))
         IN  WriteResults(s2, i + 1)

\* lines 149-150 with the children handled after the calls already pending
PendingBreadthFirst(calls, rest) == rest \o calls

\* traverse, lines 149-150: the calls of the for loop, in the order of the
\* children, run before the calls that were pending when the loop began.
Pending(calls, rest) == calls \o rest

\* The calls of write_sheet on one UpstreamTreeSheet
MaxWriteSheetCalls == 2

\* write_sheet, lines 115-122, up to the first call of traverse
write_sheet ==
    /\ pc = "init"
    /\ sheet' = create_header(sheet)
    /\ row_index' = 1
    /\ max_column' = 0
    /\ total_result' = tree.result[tree.root]
    /\ stack' = <<Path(tree.root, NoPath)>>
    /\ pc' = "traverse"
    /\ UNCHANGED <<tree, max_depth, min_contribution, row_ceiling, results,
                   visits, asked, grids, alpha>>
    /\ UNCHANGED <<parseVars, applyVars, mainVars, pathVars>>

\* One call traverse(path), its call of write included; the recursive calls
\* it makes are left pending on the stack, in the order of the for loop.
traverse ==
    /\ pc = "traverse"
    /\ stack # <<>>
    /\ LET path == Head(stack)
           node == path.node
           result == tree.result[node]
       IN  IF CeilingReached \/ IsZero(result) \/ BelowMinContribution(result)
           THEN /\ stack' = Tail(stack)
                /\ UNCHANGED <<row_index, results, max_column, sheet, visits, asked>>
           ELSE \* write(path)
                /\ row_index' = row_index + 1
                /\ results' = Append(results, result)
                /\ max_column' = max(path.length, max_column)
                /\ sheet' = WriteLabel(sheet, path, row_index + 1)
                /\ visits' = Append(visits, path)
                /\ IF DepthReached(path)
                   THEN /\ stack' = Tail(stack)
                        /\ UNCHANGED asked
                   ELSE /\ asked' = asked \cup {path}
                        /\ stack' = Pending([i \in 1..Len(tree.childs[node]) |->
                                                 append(path, tree.childs[node][i])],
                                             Tail(stack))
    /\ UNCHANGED <<tree, max_depth, min_contribution, row_ceiling, total_result, pc,
                   grids, alpha>>
    /\ UNCHANGED <<parseVars, applyVars, mainVars, pathVars>>

\* write_sheet, lines 124-129, after the outermost traverse has returned
write_results ==
    /\ pc = "traverse"
    /\ stack = <<>>
    /\ sheet' = WriteResults(sheet, 0)
    /\ grids' = Append(grids, WriteResults(sheet, 0))
    /\ UNCHANGED alpha
    /\ pc' = "done"
    /\ UNCHANGED <<tree, max_depth, min_contribution, row_ceiling, total_result,
                   max_column, row_index, results, stack, visits, asked>>
    /\ UNCHANGED <<parseVars, applyVars, mainVars, pathVars>>

\* write_sheet, lines 115-122, called again on the UpstreamTreeSheet
write_sheet_again ==
    /\ pc = "done"
    /\ Len(grids) < MaxWriteSheetCalls
    /\ sheet' = create_header(sheet)
    /\ row_index' = 1
    /\ max_column' = 0
    /\ total_result' = tree.result[tree.root]
    /\ stack' = <<Path(tree.root, NoPath)>>
    /\ pc' = "traverse"
    /\ UNCHANGED <<tree, max_depth, min_contribution, row_ceiling, results,
                   visits, asked, grids, alpha>>
    /\ UNCHANGED <<parseVars, applyVars, mainVars, pathVars>>

\* The alpha script's get_and_write_contribution_tree, lines 234-300: the
\* nested for loops over the children
AlphaLoops == 4

\* x.provider().provider().name raises no AttributeError
HasName(node) ==
    /\ tree.provider[node] # None
    /\ ProcessOf(tree.provider[node]) # NoProcess

\* result / base_result without the factor 100
alpha_percentage_unscaled(result, base_result) ==
    fdiv(Float(result), Float(base_result))

\* alpha script, lines 230, 248, 265, 282 and 299: result / base_result * 100
alpha_percentage(result, base_result) ==
    fmul(fdiv(Float(result), Float(base_result)), Float(100))

\* alpha script, lines 241-251 (258-268, 275-285, 292-302): the row of one
\* node, its label in the column of its level
alpha_tree_row(st, node, level, base_result) ==
    LET s1 == SetCell(st.sheet, st.counter, level,
                      Text(ProcessOf(tree.provider[node]).name))
        s2 == SetCell(s1, st.counter, index_of("F"),
                      Number(Float(tree.result[node])))
        s3 == SetCell(s2, st.counter, index_of("G"),
                      Number(alpha_percentage(tree.result[node], base_result)))
    IN  [st EXCEPT !.sheet = s3, !.counter = st.counter + 1,
                   !.nodes = Append(st.nodes, node)]

\* alpha script, lines 234-302: the for loop of one level over children, with
\* the loops nested in it
RECURSIVE alpha_for(_, _, _, _)
alpha_for(st, children, level, base_result) ==
    IF st.error # None \/ children = <<>> THEN st
    ELSE LET child == Head(children)
         IN  IF ~HasName(child)
             THEN [st EXCEPT !.error = "AttributeError", !.pc = "raised"]
             ELSE LET st1 == alpha_tree_row(st, child, level, base_result)
                      st2 == IF level < AlphaLoops
                             THEN alpha_for(st1, tree.childs[child], level + 1,
                                            base_result)
                             ELSE st1
                  IN  alpha_for(st2, Tail(children), level, base_result)

\* alpha script, get_and_write_contribution_tree, lines 185-302, for one
\* impact category
alpha_get_and_write_contribution_tree ==
    /\ pc = "done"
    /\ alpha = NoAlpha
    /\ LET root == tree.root
           base_result == tree.result[root]
           st0 == [pc |-> "done", sheet |-> create_header(<<>>), counter |-> 2,
                   nodes |-> <<>>, error |-> None]
       IN  alpha' =
             IF ~HasName(root)
             THEN [st0 EXCEPT !.error = "AttributeError", !.pc = "raised"]
             ELSE IF base_result = 0
             THEN LET s1 == SetCell(st0.sheet, 2, index_of("A"),
                                    Text(ProcessOf(tree.provider[root]).name))
                      s2 == SetCell(s1, 2, index_of("F"), Number(Float(base_result)))
                  IN  [st0 EXCEPT !.sheet = s2, !.error = "ZeroDivisionError",
                                  !.pc = "raised"]
             ELSE alpha_for(alpha_tree_row(st0, root, 0, base_result),
                            tree.childs[root], 1, base_result)
    /\ UNCHANGED <<tree, max_depth, min_contribution, row_ceiling, total_result,
                   max_column, row_index, results, sheet, stack, visits, asked, pc,
                   grids>>
    /\ UNCHANGED <<parseVars, applyVars, mainVars, pathVars>>

\* No workbook is being parsed.
ParseIdle ==
    /\ first_run = NoRun
    /\ warning = TRUE
    /\ header_row = <<>>
    /\ lastRowNum = 0
    /\ rows_read = <<>>
    /\ columns = <<>>
    /\ parameters = <<>>
    /\ row_num = 0
    /\ printed = <<>>
    /\ error = None
    /\ ppc = "idle"

\* No product system is loaded.
ApplyIdle ==
    /\ new_params = <<>>
    /\ loaded = <<>>
    /\ systems = <<>>
    /\ db = <<>>
    /\ apply_i = 0

\* main is not running.
MainIdle ==
    /\ mpc = "idle"
    /\ lca_results = NoResult
    /\ calculations = <<>>
    /\ impact_categories = 0
    /\ category_i = 0
    /\ upstream_sheets = <<>>
    /\ target = <<>>
    /\ sheet_names = <<>>
    /\ used = <<>>

\* No Path is under study on its own.
PathIdle ==
    /\ the_path = NoPath
    /\ counted = NoCount

\* UpstreamTreeSheet.__init__ on a new sheet, for any tree and limits.
InitTree ==
    /\ ParseIdle
    /\ ApplyIdle
    /\ MainIdle
    /\ PathIdle
    /\ tree \in Trees
    /\ max_depth \in Depths
    /\ min_contribution \in Fractions
    /\ row_ceiling \in Ceilings
    /\ total_result = NoNumber
    /\ max_column = NoNumber
    /\ row_index = NoNumber
    /\ results = <<>>
    /\ sheet = <<>>
    /\ stack = <<>>
    /\ visits = <<>>
    /\ asked = {}
    /\ pc = "init"
    /\ grids = <<>>
    /\ alpha = NoAlpha

NextTree == write_sheet \/ traverse \/ write_results

SpecTree == InitTree /\ [][NextTree]_vars

\* An UpstreamTreeSheet with the constants of the class, on which write_sheet
\* is called up to MaxWriteSheetCalls times.
InitRepeat ==
    /\ InitTree
    /\ max_depth = MAX_DEPTH
    /\ min_contribution = Float(MIN_CONTRIBUTION)
    /\ row_ceiling = EXCEL_MAX_ROW

NextRepeat == NextTree \/ write_sheet_again

\* The trees the two revisions are run on
RevisionResults == {0, 1, 3}

RevisionTrees ==
    [root : {1},
     result : [Nodes -> RevisionResults],
     provider : [Nodes -> {"A", "U", None}],
     childs : [Nodes -> ChildLists]]

\* An UpstreamTreeSheet with the constants of the class and the alpha script,
\* on one tree
InitRevision ==
    /\ ParseIdle /\ ApplyIdle /\ MainIdle /\ PathIdle
    /\ tree \in RevisionTrees
    /\ max_depth = MAX_DEPTH
    /\ min_contribution = Float(MIN_CONTRIBUTION)
    /\ row_ceiling = EXCEL_MAX_ROW
    /\ total_result = NoNumber
    /\ max_column = NoNumber
    /\ row_index = NoNumber
    /\ results = <<>>
    /\ sheet = <<>>
    /\ stack = <<>>
    /\ visits = <<>>
    /\ asked = {}
    /\ pc = "init"
    /\ grids = <<>>
    /\ alpha = NoAlpha

NextRevision == NextTree \/ alpha_get_and_write_contribution_tree

SpecRevision == InitRevision /\ [][NextRevision]_vars

SpecRepeat == InitRepeat /\ [][NextRepeat]_vars

\* write_sheet runs on: a call that can go on does go on.
SpecTreeFair == SpecTree /\ WF_vars(NextTree)

\* No upstream-tree sheet is being written.
TreeIdle ==
    /\ tree = <<>>
    /\ max_depth = MAX_DEPTH
    /\ min_contribution = Float(MIN_CONTRIBUTION)
    /\ row_ceiling = EXCEL_MAX_ROW
    /\ total_result = NoNumber
    /\ max_column = NoNumber
    /\ row_index = NoNumber
    /\ results = <<>>
    /\ sheet = <<>>
    /\ stack = <<>>
    /\ visits = <<>>
    /\ asked = {}
    /\ pc = "idle"
    /\ grids = <<>>
    /\ alpha = NoAlpha

-----------------------------------------------------------------------------
(* A Path on its own: built by Path(node) and append, asked for count.     *)

\* The greatest length of the paths built.
MaxPathLength == 3

\* The graphs whose nodes the paths hold: any provider for each node.
PathTrees ==
    [root : {1},
     result : {[n \in Nodes |-> 100]},
     provider : [Nodes -> TechFlows \cup {None}],
     childs : {[n \in Nodes |-> <<>>]}]

\* the_path = the_path.append(node), lines 92-93
Path_append ==
    /\ the_path.length < MaxPathLength
    /\ \E node \in Nodes : the_path' = append(the_path, node)
    /\ counted' = NoCount
    /\ UNCHANGED <<treeVars, parseVars, applyVars, mainVars>>

\* the_path.count(tech_flow), lines 95-97
Path_count ==
    /\ \E tech_flow \in TechFlows \cup {None} :
          counted' = [tech_flow |-> tech_flow, count |-> count(the_path, tech_flow)]
    /\ UNCHANGED the_path
    /\ UNCHANGED <<treeVars, parseVars, applyVars, mainVars>>

\* Path(node), lines 87-90, for any node of any graph
InitPath ==
    /\ ParseIdle
    /\ ApplyIdle
    /\ MainIdle
    /\ tree \in PathTrees
    /\ max_depth = MAX_DEPTH
    /\ min_contribution = Float(MIN_CONTRIBUTION)
    /\ row_ceiling = EXCEL_MAX_ROW
    /\ total_result = NoNumber
    /\ max_column = NoNumber
    /\ row_index = NoNumber
    /\ results = <<>>
    /\ sheet = <<>>
    /\ stack = <<>>
    /\ visits = <<>>
    /\ asked = {}
    /\ pc = "idle"
    /\ grids = <<>>
    /\ alpha = NoAlpha
    /\ \E node \in Nodes : the_path = Path(node, NoPath)
    /\ counted = NoCount

NextPath == Path_append \/ Path_count

SpecPath == InitPath /\ [][NextPath]_vars

-----------------------------------------------------------------------------
(* The sheet 'Parameters check' as Excel.cell and the POI cell show it.     *)
(* Excel.cell(sheet, row, column) is an Optional: of an absent cell          *)
(* isPresent() is false and get() raises NoSuchElementException.  A cell     *)
(* that is present is blank, a string or a number; getStringCellValue()      *)
(* raises on a number and is "" for a blank cell, getNumericCellValue()      *)
(* raises on a string and is 0 for a blank cell.                             *)

Absent == [kind |-> "absent"]

Blank == [kind |-> "blank"]

StringCell(t) == [kind |-> "string", text |-> t]

NumericCell(n) == [kind |-> "numeric", number |-> n]

isPresent(cell) == cell.kind # "absent"

StringReadable(cell) == cell.kind \in {"string", "blank"}

getStringCellValue(cell) == IF cell.kind = "blank" THEN "" ELSE cell.text

NumericReadable(cell) == cell.kind \in {"numeric", "blank"}

getNumericCellValue(cell) == IF cell.kind = "blank" THEN 0 ELSE cell.number

RequiredColumns == {"Parameter", "Modified value", "Context"}

\* The largest number of data rows of a sheet.
MaxDataRows == 2

HeaderCells == {Absent} \cup {StringCell(name) : name \in RequiredColumns}

\* Header rows as wide as there are required columns: every order of the
\* three names, and every way for names to be missing or repeated.
HeaderRows == [1..Cardinality(RequiredColumns) -> HeaderCells]

\* The three cells of a data row that parse_parameter reads.
DataRows == [name : {Absent, StringCell("Density"), NumericCell(7)},
             modified_value : {Absent, Blank, StringCell("n/a"),
                               NumericCell(5), NumericCell(9)},
             context : {Absent, StringCell("global"), StringCell("ProcessA")}]

\* Excel.cell(header_row, column_index); header_row.lastCellNum is
\* Len(header_row), one past the index of the last cell.
HeaderCell(row, column_index) ==
    IF column_index < Len(row) THEN row[column_index + 1] ELSE Absent

\* letter_of(index) = chr(ord('@') + index + 1)
letter_of(index) == <<"A", "B", "C", "D", "E", "F", "G", "H">>[index + 1]

-----------------------------------------------------------------------------
(* Python dicts are functions; {} is <<>>.                                  *)

\* the update that keeps an entry already there
updateKeepFirst(d, e) == d @@ e

\* d.update(e)
update(d, e) == e @@ d

\* d[key] = value
setitem(d, key, value) == (key :> value) @@ d

-----------------------------------------------------------------------------
(* Lco2Modeler: the parser of the parameter overrides.                      *)

\* get_headers, lines 502-508, from column_index on: the dict and the
\* messages printed.
RECURSIVE get_headers_from(_, _, _, _)
get_headers_from(row, column_index, column_position_dict, out) ==
    IF column_index >= Len(row) + 1
    THEN [columns |-> column_position_dict, printed |-> out]
    ELSE LET header_cell == HeaderCell(row, column_index)
         IN  IF isPresent(header_cell)
             THEN get_headers_from(row, column_index + 1,
                      setitem(column_position_dict,
                              getStringCellValue(header_cell), column_index),
                      out)
             ELSE IF warning
             THEN get_headers_from(row, column_index + 1, column_position_dict,
                      Append(out, [text |-> "Cell does not exist!",
                                   column |-> letter_of(column_index),
                                   row |-> 1]))
             ELSE get_headers_from(row, column_index + 1, column_position_dict, out)

get_headers(row) == get_headers_from(row, 0, <<>>, <<>>)

FailToParse(column_index, row_idx) ==
    [text |-> "Fail to parse parameter.",
     column |-> letter_of(column_index), row |-> row_idx]

CellIsEmpty(row_idx) ==
    [text |-> "A cell is empty on row.", column |-> "", row |-> row_idx]

\* (row_idx is the parameter row_index of parse_parameter.)
\* What a call returns or raises, and what it prints.
ReturnDict(d, out) == [kind |-> "dict", dict |-> d, printed |-> out]

ReturnNone(out) == [kind |-> "None", printed |-> out]

Raise(exception, out) == [kind |-> "raise", exception |-> exception, printed |-> out]

\* parse_parameter, lines 475-497, on the data row whose three cells are row.
parse_parameter(row, row_idx, cols) ==
    IF ~(RequiredColumns \subseteq DOMAIN cols)
    THEN \* lines 477-480: columns[...] of a name that is no key
         Raise("KeyError", <<>>)
    ELSE
    LET column_index == cols["Parameter"]
        name_cell == row.name
        modified_value_cell == row.modified_value
        context_value_cell == row.context
        cells == <<name_cell, modified_value_cell, context_value_cell>>
    IN  IF warning /\ ~(\A i \in 1..3 : isPresent(cells[i]))
        THEN \* lines 482-485
             ReturnDict(<<>>, <<FailToParse(column_index, row_idx)>>)
        ELSE IF ~(\A i \in 1..3 : isPresent(cells[i]))
        THEN \* line 486: get() of an empty Optional
             Raise("NoSuchElementException", <<>>)
        \* lines 486-488: get() of a present Optional is never None, so the
        \* branch that prints CellIsEmpty is not taken.
        ELSE IF /\ StringReadable(name_cell)
                /\ NumericReadable(modified_value_cell)
                /\ StringReadable(context_value_cell)
        THEN \* lines 491-495
             ReturnDict(<<getStringCellValue(name_cell),
                          getStringCellValue(context_value_cell)>>
                            :> getNumericCellValue(modified_value_cell),
                        <<>>)
        ELSE \* lines 496-497: the except clause prints and falls off the end
             ReturnNone(<<FailToParse(column_index, row_idx)>>)

\* parse_workbook_parameters, lines 461-467
parse_start ==
    /\ ppc = "start"
    /\ LET h == get_headers(header_row)
       IN  /\ columns' = h.columns
           /\ printed' = printed \o h.printed
    /\ parameters' = <<>>
    /\ row_num' = 1
    /\ ppc' = "rows"
    /\ UNCHANGED <<first_run, warning, header_row, lastRowNum, rows_read, error>>
    /\ UNCHANGED <<treeVars, applyVars, mainVars, pathVars>>

\* parse_workbook_parameters, lines 470-471: one turn of the for loop.  The
\* cells of the row are read when the three columns are known.
parse_row ==
    /\ ppc = "rows"
    /\ row_num < lastRowNum + 1
    /\ \E row \in IF RequiredColumns \subseteq DOMAIN columns
                  THEN DataRows ELSE {[name |-> Absent, modified_value |-> Absent,
                                       context |-> Absent]} :
          LET r == parse_parameter(row, row_num, columns)
          IN  /\ rows_read' = IF RequiredColumns \subseteq DOMAIN columns
                              THEN Append(rows_read, row) ELSE rows_read
              /\ printed' = printed \o r.printed
              /\ IF r.kind = "raise"
                 THEN /\ error' = r.exception
                      /\ ppc' = "raised"
                      /\ UNCHANGED <<parameters, row_num>>
                 ELSE IF r.kind = "None"
                 THEN \* parameters.update(None)
                      /\ error' = "TypeError"
                      /\ ppc' = "raised"
                      /\ UNCHANGED <<parameters, row_num>>
                 ELSE /\ parameters' = update(parameters, r.dict)
                      /\ row_num' = row_num + 1
                      /\ UNCHANGED <<error, ppc>>
    /\ UNCHANGED <<first_run, warning, header_row, lastRowNum, columns>>
    /\ UNCHANGED <<treeVars, applyVars, mainVars, pathVars>>

\* parse_workbook_parameters, line 473
parse_return ==
    /\ ppc = "rows"
    /\ ~(row_num < lastRowNum + 1)
    /\ ppc' = "returned"
    /\ UNCHANGED <<first_run, warning, header_row, lastRowNum, rows_read, columns, parameters,
                   row_num, printed, error>>
    /\ UNCHANGED <<treeVars, applyVars, mainVars, pathVars>>

\* Lco2Modeler.__init__ with any warning flag, on any sheet 'Parameters check'.
InitParse ==
    /\ TreeIdle
    /\ ApplyIdle
    /\ MainIdle
    /\ PathIdle
    /\ first_run = NoRun
    /\ warning \in BOOLEAN
    /\ header_row \in HeaderRows
    /\ lastRowNum \in 0..MaxDataRows
    /\ rows_read = <<>>
    /\ columns = <<>>
    /\ parameters = <<>>
    /\ row_num = 0
    /\ printed = <<>>
    /\ error = None
    /\ ppc = "start"

NextParse == parse_start \/ parse_row \/ parse_return

SpecParse == InitParse /\ [][NextParse]_vars

\* A second Lco2Modeler on the same workbook, constructed with the other
\* warning flag (lines 179-189), calls parse_workbook_parameters after the
\* first one has returned or raised.
parse_again ==
    /\ first_run = NoRun
    /\ ppc \in {"returned", "raised"}
    /\ first_run' = [warning |-> warning, ppc |-> ppc, parameters |-> parameters,
                     error |-> error, rows_read |-> rows_read]
    /\ warning' = ~warning
    /\ rows_read' = <<>>
    /\ columns' = <<>>
    /\ parameters' = <<>>
    /\ row_num' = 0
    /\ printed' = <<>>
    /\ error' = None
    /\ ppc' = "start"
    /\ UNCHANGED <<header_row, lastRowNum>>
    /\ UNCHANGED <<treeVars, applyVars, mainVars, pathVars>>

\* The second parser reads the rows the first one read.
SameRows ==
    first_run # NoRun =>
        \A i \in 1..Len(rows_read) :
            i <= Len(first_run.rows_read) => rows_read[i] = first_run.rows_read[i]

NextTwin ==
    \/ NextParse /\ SameRows'
    \/ parse_again

SpecTwin == InitParse /\ [][NextTwin]_vars

-----------------------------------------------------------------------------
(* Lco2Modeler: the applier of the parameter overrides.                     *)

\* db.get(Process, id): the processes of the database, by id.
Process == [idA |-> [name |-> "ProcessA"], idB |-> [name |-> "ProcessB"]]

\* The largest number of parameters of a parameter set.
MaxParams == 2

\* ParameterRedef: name, contextId (None when global) and value.
ParameterRedefs ==
    [name : {"Density"}, contextId : {None, "idA", "idB"}, value : {1}]
    \cup [name : {"Mass"}, contextId : {None}, value : {1}]

RECURSIVE SeqsUpTo(_, _)
SeqsUpTo(S, n) ==
    IF n = 0 THEN {<<>>}
    ELSE SeqsUpTo(S, n - 1)
         \cup {Append(q, x) : q \in {r \in SeqsUpTo(S, n - 1) : Len(r) = n - 1}, x \in S}

\* ParameterRedefSet: its parameters.
ParameterSets == [parameters : SeqsUpTo(ParameterRedefs, MaxParams)]

\* ProductSystem.parameterSets: none, one set, or two sets of at most one
\* parameter each.
ProductSystems ==
    [parameterSets :
        {<<>>}
        \cup {<<ps>> : ps \in ParameterSets}
        \cup {<<ps, qs>> : ps, qs \in [parameters : SeqsUpTo(ParameterRedefs, 1)]}]

\* The keys an override mapping may hold, and the mappings.
OverrideKeys ==
    {<<"Density", "global">>, <<"Density", "ProcessA">>, <<"Mass", "global">>}

Overrides ==
    UNION {[keys -> {5, 9}] : keys \in SUBSET OverrideKeys}

\* context_of that ignores the scope of the parameter
context_of_unscoped(param) == "global"

\* context_of, lines 78-82
context_of(param) ==
    IF param.contextId # None
    THEN Process[param.contextId].name
    ELSE "global"

\* lines 216-219 with new_params.get(key, 0.0) assigned without the test
SetParamUntested(param, overrides) ==
    LET key == <<param.name, context_of(param)>>
    IN  [param EXCEPT !.value = IF key \in DOMAIN overrides
                                THEN overrides[key] ELSE 0]

\* set_system_parameters, lines 216-219: new_params.get(key) is None exactly
\* when key is no key of new_params (its values are floats).
SetParam(param, overrides) ==
    LET key == <<param.name, context_of(param)>>
    IN  IF key \in DOMAIN overrides
        THEN [param EXCEPT !.value = overrides[key]]
        ELSE param

\* lines 214-219 handling parameterSets[0] alone
SetParamsFirstSet(system, overrides) ==
    [system EXCEPT !.parameterSets[1].parameters =
        [k \in 1..Len(system.parameterSets[1].parameters) |->
            SetParam(system.parameterSets[1].parameters[k], overrides)]]

\* set_system_parameters, lines 214-219: the system after the two loops
SetParams(system, overrides) ==
    [system EXCEPT !.parameterSets =
        [s \in 1..Len(system.parameterSets) |->
            [system.parameterSets[s] EXCEPT !.parameters =
                [k \in 1..Len(system.parameterSets[s].parameters) |->
                    SetParam(system.parameterSets[s].parameters[k], overrides)]]]]

\* set_systems_parameters, lines 206-207: one turn of the for loop, the call
\* set_system_parameters(system, new_params) of lines 210-220.
set_system_parameters ==
    /\ apply_i < Len(systems)
    /\ LET i == apply_i + 1
           system == systems[i]
       IN  IF system.parameterSets = <<>>
           THEN UNCHANGED <<systems, db>>
           ELSE /\ systems' = [systems EXCEPT ![i] = SetParams(system, new_params)]
                /\ db' = [db EXCEPT ![i] = SetParams(system, new_params)]
    /\ apply_i' = apply_i + 1
    /\ UNCHANGED <<new_params, loaded>>
    /\ UNCHANGED <<treeVars, parseVars, mainVars, pathVars>>

\* set_systems_parameters after parse_workbook_parameters has returned any
\* mapping, on any two product systems.
InitApply ==
    /\ TreeIdle
    /\ ParseIdle
    /\ MainIdle
    /\ PathIdle
    /\ new_params \in Overrides
    /\ loaded \in [1..2 -> ProductSystems]
    /\ systems = loaded
    /\ db = loaded
    /\ apply_i = 0

NextApply == set_system_parameters

SpecApply == InitApply /\ [][NextApply]_vars

-----------------------------------------------------------------------------
(* The alpha script, Orsted_Excel_File_Calculator_alpha.py:                 *)
(* Lco2Modeler.update_parameter_set, lines 46-91.  row.getCell gives None   *)
(* for an absent cell and sheet.getRow gives None for an absent row; the    *)
(* header row is taken to exist.                                            *)

\* sheet.getRow(row_num) is None.
NoRow == [none |-> TRUE]

\* The header rows of the sheet 'Parameters check': two cells.
AlphaHeaderRows ==
    [1..2 -> {Absent, StringCell("Parameter"), StringCell("Modified value")}]

\* The data rows: the cells under 'Parameter' and 'Modified value'.
AlphaRows ==
    [name : {Absent, StringCell("Density"), NumericCell(7)},
     modified_value : {Absent, StringCell("n/a"), NumericCell(5), NumericCell(9)}]
    \cup {NoRow}

\* The product systems: no parameter set, or one set.
AlphaSystems ==
    [parameterSets : {<<>>} \cup {<<ps>> : ps \in ParameterSets}]

\* header_row.lastCellNum: one more than the index of the last cell, -1
\* without cells.
lastCellNum(row) ==
    IF \A i \in 1..Len(row) : ~isPresent(row[i]) THEN -1
    ELSE CHOOSE n \in 1..Len(row) :
             /\ isPresent(row[n])
             /\ \A i \in (n + 1)..Len(row) : ~isPresent(row[i])

\* lines 61-69: column_position_dict and what was printed after the cells
\* from header_cell_num on.
RECURSIVE alpha_headers(_, _, _, _)
alpha_headers(row, header_cell_num, column_position_dict, out) ==
    IF header_cell_num >= lastCellNum(row) + 1
    THEN [columns |-> column_position_dict, printed |-> out]
    ELSE LET header_cell == HeaderCell(row, header_cell_num)
         IN  IF isPresent(header_cell) /\ StringReadable(header_cell)
             THEN alpha_headers(row, header_cell_num + 1,
                                setitem(column_position_dict,
                                        getStringCellValue(header_cell),
                                        header_cell_num),
                                out)
             ELSE alpha_headers(row, header_cell_num + 1, column_position_dict,
                                IF warning
                                THEN Append(out, "Cell does not exist!")
                                ELSE out)

\* lines 82-86: the loop over the parameters.  counter is a local name that
\* is never bound, so counter += 1 raises UnboundLocalError after the first
\* parameter of the name was updated and printed.
UpdateNamed(params, parameter_name, modified_value) ==
    LET matches == {k \in 1..Len(params) : params[k].name = parameter_name}
    IN  IF matches = {}
        THEN [params |-> params, raised |-> FALSE, updated |-> {}]
        ELSE LET first == CHOOSE k \in matches : \A j \in matches : k <= j
             IN  [params |-> [params EXCEPT ![first].value = modified_value],
                  raised |-> TRUE,
                  updated |-> {first}]

\* lines 72-89: one turn of the loop over the rows, on the cells of the row:
\* the parameters after it and what it printed.
alpha_update_row(row, cols, params) ==
    LET except == [params |-> params,
                   printed |-> IF warning THEN <<"Row does not exist!">> ELSE <<>>]
    IN  IF row = NoRow THEN except
        ELSE IF "Parameter" \notin DOMAIN cols THEN except
        ELSE IF "Modified value" \notin DOMAIN cols THEN except
        ELSE IF ~(isPresent(row.name) /\ isPresent(row.modified_value))
             THEN [params |-> params, printed |-> <<>>]
        ELSE IF ~StringReadable(row.name) THEN except
        ELSE IF ~NumericReadable(row.modified_value) THEN except
        ELSE LET u == UpdateNamed(params, getStringCellValue(row.name),
                                  getNumericCellValue(row.modified_value))
                 updates == [k \in 1..Cardinality(u.updated) |-> "was updated"]
             IN  [params |-> u.params,
                  printed |-> updates \o (IF u.raised THEN except.printed ELSE <<>>)]

\* lines 50-69: the parameter set and the header
alpha_start ==
    /\ ppc = "alpha_start"
    /\ IF systems[1].parameterSets = <<>>
       THEN /\ error' = "IndexError"
            /\ ppc' = "raised"
            /\ UNCHANGED <<columns, printed, row_num>>
       ELSE /\ LET h == alpha_headers(header_row, 0, <<>>, <<>>)
               IN  /\ columns' = h.columns
                   /\ printed' = printed \o h.printed
            /\ row_num' = 0
            /\ ppc' = "alpha_rows"
            /\ UNCHANGED error
    /\ UNCHANGED <<first_run, warning, header_row, lastRowNum, rows_read, parameters>>
    /\ UNCHANGED <<treeVars, applyVars, mainVars, pathVars>>

\* lines 72-89: one turn of the loop over the rows.  Row 0 is the header row;
\* the cells of a later row are read when the two columns are known.
alpha_row ==
    /\ ppc = "alpha_rows"
    /\ row_num < lastRowNum + 1
    /\ LET known == {"Parameter", "Modified value"} \subseteq DOMAIN columns
       IN  \E row \in IF ~known THEN {NoRow}
                      ELSE IF row_num = 0
                      THEN {[name |-> HeaderCell(header_row, columns["Parameter"]),
                             modified_value |->
                                 HeaderCell(header_row, columns["Modified value"])]}
                      ELSE AlphaRows :
              LET r == alpha_update_row(row, columns,
                                        systems[1].parameterSets[1].parameters)
              IN  /\ rows_read' = Append(rows_read, row)
                  /\ printed' = printed \o r.printed
                  /\ systems' = [systems EXCEPT
                                     ![1].parameterSets[1].parameters = r.params]
    /\ row_num' = row_num + 1
    /\ UNCHANGED <<first_run, warning, header_row, lastRowNum, columns, parameters, error, ppc>>
    /\ UNCHANGED <<new_params, loaded, db, apply_i>>
    /\ UNCHANGED <<treeVars, mainVars, pathVars>>

\* line 91
alpha_return ==
    /\ ppc = "alpha_rows"
    /\ ~(row_num < lastRowNum + 1)
    /\ ppc' = "returned"
    /\ UNCHANGED <<first_run, warning, header_row, lastRowNum, rows_read, columns, parameters,
                   row_num, printed, error>>
    /\ UNCHANGED <<treeVars, applyVars, mainVars, pathVars>>

\* update_parameter_set with any warnings flag, on any sheet and any system
InitAlpha ==
    /\ TreeIdle
    /\ MainIdle
    /\ PathIdle
    /\ first_run = NoRun
    /\ warning \in BOOLEAN
    /\ header_row \in AlphaHeaderRows
    /\ lastRowNum \in 0..MaxDataRows
    /\ rows_read = <<>>
    /\ columns = <<>>
    /\ parameters = <<>>
    /\ row_num = 0
    /\ printed = <<>>
    /\ error = None
    /\ ppc = "alpha_start"
    /\ new_params = <<>>
    /\ loaded \in [1..1 -> AlphaSystems]
    /\ systems = loaded
    /\ db = loaded
    /\ apply_i = 0

NextAlpha == alpha_start \/ alpha_row \/ alpha_return

SpecAlpha == InitAlpha /\ [][NextAlpha]_vars

-----------------------------------------------------------------------------
(* main and the methods of Lco2Modeler it calls, lines 532-573.  Of the     *)
(* target workbook only the upstream-tree sheet being written is kept; the  *)
(* cells the write_* methods put on the other sheets are not.               *)

\* The largest number of impact categories of the method 'EF 3.0'.
MaxCategories == 2

\* sheet.lastRowNum of the workbooks main is run on.
MainLastRows == {0, 1}

\* The product systems main is run on: no parameter set, or one set with one
\* Density, unscoped or scoped to ProcessA.
MainSystems ==
    {system \in ProductSystems :
        /\ Len(system.parameterSets) <= 1
        /\ \A s \in 1..Len(system.parameterSets) :
              /\ Len(system.parameterSets[s].parameters) = 1
              /\ system.parameterSets[s].parameters[1].name = "Density"
              /\ system.parameterSets[s].parameters[1].contextId \in {None, "idA"}}

\* UpstreamTree.of(results.provider(), Descriptor.of(impact_category)): the
\* trees main writes, a root alone or a root with one child.
MainTrees ==
    [root : {1},
     result : {[n \in Nodes |-> 100]},
     provider : {[n \in Nodes |-> "A"]},
     childs : {[n \in Nodes |-> IF n = 1 THEN c ELSE <<>>] : c \in {<<>>, <<2>>}}]

\* run_impact_calculation, lines 429-456: the setup handed to
\* calculator.calculate, or the IndexError of parameterSets[0].
run_impact_calculation(ef3_method, use_esg_system) ==
    LET product_system == IF use_esg_system THEN systems[2] ELSE systems[1]
    IN  IF product_system.parameterSets = <<>>
        THEN Raise("IndexError", <<>>)
        ELSE [kind |-> "setup",
              system |-> IF use_esg_system THEN "esg_system" ELSE "system",
              impact_method |-> IF ef3_method THEN "ef3_method" ELSE "ced_method",
              parameters |-> product_system.parameterSets[1].parameters]

\* calculator.calculate(setup): the LcaResult of a setup, a new object at
\* every call.
calculate(setup) == [setup |-> setup, call |-> Len(calculations) + 1]

\* A call of run_impact_calculation that is not kept in self.results; main
\* goes on at next when it returns.
Calculate(ef3_method, use_esg_system, next) ==
    LET r == run_impact_calculation(ef3_method, use_esg_system)
    IN  /\ IF r.kind = "raise"
           THEN /\ error' = r.exception
                /\ mpc' = "raised"
                /\ UNCHANGED calculations
           ELSE /\ calculations' = Append(calculations, r)
                /\ mpc' = next
                /\ UNCHANGED error
        /\ UNCHANGED <<lca_results, used>>

\* get_result_no_arg that never finds a result kept
IsCachedNever == FALSE

\* get_result_no_arg, line 380: not (self.results is None)
IsCached == lca_results # NoResult

\* get_result_no_arg, lines 379-382; the caller goes on at next when it
\* returns.
get_result_no_arg(next) ==
    IF IsCached
    THEN /\ mpc' = next
         /\ used' = Append(used, lca_results)
         /\ UNCHANGED <<lca_results, calculations, error>>
    ELSE LET r == run_impact_calculation(TRUE, FALSE)
         IN  IF r.kind = "raise"
             THEN /\ error' = r.exception
                  /\ mpc' = "raised"
                  /\ UNCHANGED <<lca_results, calculations, used>>
             ELSE /\ calculations' = Append(calculations, r)
                  /\ lca_results' = calculate(r)
                  /\ used' = Append(used, calculate(r))
                  /\ mpc' = next
                  /\ UNCHANGED error

\* main, lines 537-558: the two dialogs, the workbooks and Lco2Modeler.__init__
main ==
    /\ mpc = "main"
    /\ UNCHANGED used
    /\ \E file \in BOOLEAN, system_descriptor \in BOOLEAN :
          IF ~file \/ ~system_descriptor
          THEN /\ mpc' = "returned"
               /\ UNCHANGED ppc
          ELSE /\ mpc' = "parse"
               /\ ppc' = "start"
    /\ lca_results' = NoResult
    /\ UNCHANGED <<calculations, impact_categories, category_i, upstream_sheets,
                   target, sheet_names>>
    /\ UNCHANGED <<first_run, warning, header_row, lastRowNum, rows_read, columns, parameters,
                   row_num, printed, error>>
    /\ UNCHANGED <<treeVars, applyVars, pathVars>>

\* set_systems_parameters with the flow of main reversed: line 560 reached
\* before the loop of lines 206-207 has run
ParametersSetLater == apply_i = 0

\* main, lines 559-560: set_systems_parameters has returned
ParametersSet == apply_i = Len(systems)

\* set_systems_parameters, line 205, when parse_workbook_parameters returns
set_systems_parameters ==
    /\ mpc = "parse"
    /\ UNCHANGED used
    /\ ppc = "returned"
    /\ new_params' = parameters
    /\ mpc' = "apply"
    /\ UNCHANGED <<lca_results, calculations, impact_categories, category_i,
                   upstream_sheets, target, sheet_names>>
    /\ UNCHANGED <<loaded, systems, db, apply_i>>
    /\ UNCHANGED <<treeVars, parseVars, pathVars>>

\* 'Upstream tree %i' % i
UpstreamTreeName(i) ==
    <<"Upstream tree 1", "Upstream tree 2", "Upstream tree 3", "Upstream tree 4",
      "Upstream tree 5">>[i]

\* 'Upstream tree' in sheet_name, for the sheet names of the model
IsUpstreamTree(sheet_name) ==
    sheet_name \in {"Upstream tree sheet index"}
                   \cup {UpstreamTreeName(i) : i \in 1..5}

\* target.removeSheetAt(sheet_id), for a sheet_id in range
removeSheetAt(book, sheet_id) ==
    [i \in 1..(Len(book) - 1) |-> IF i <= sheet_id THEN book[i] ELSE book[i + 1]]

\* target.createSheet(name): IllegalArgumentException when the workbook has
\* a sheet of the name
createSheet(book, name) ==
    IF \E i \in 1..Len(book) : book[i] = name
    THEN [target |-> book, error |-> "IllegalArgumentException"]
    ELSE [target |-> Append(book, name), error |-> None]

\* list.index(sheet_name), from 0
index(names, sheet_name) ==
    (CHOOSE i \in 1..Len(names) :
        /\ names[i] = sheet_name
        /\ \A j \in 1..(i - 1) : names[j] # sheet_name) - 1

\* delete_upstream_sheet, lines 402-405: the loop from the i-th name of
\* sheet_names on.  removeSheetAt raises IllegalArgumentException for an
\* index the workbook does not have.
RECURSIVE removeUpstreamSheets(_, _, _)
removeUpstreamSheets(names, i, book) ==
    IF i > Len(names) THEN [target |-> book, error |-> None]
    ELSE IF ~IsUpstreamTree(names[i]) THEN removeUpstreamSheets(names, i + 1, book)
    ELSE LET sheet_id == index(names, names[i])
         IN  IF sheet_id >= Len(book)
             THEN [target |-> book, error |-> "IllegalArgumentException"]
             ELSE removeUpstreamSheets(names, i + 1, removeSheetAt(book, sheet_id))

\* delete_upstream_sheet, lines 399-405
delete_upstream_sheet ==
    /\ mpc = "delete_upstream_sheet"
    /\ UNCHANGED used
    /\ sheet_names' = target
    /\ LET r == removeUpstreamSheets(target, 1, target)
       IN  /\ target' = r.target
           /\ error' = r.error
           /\ mpc' = IF r.error # None THEN "raised" ELSE "create_index_sheet"
    /\ UNCHANGED <<lca_results, calculations, impact_categories, category_i,
                   upstream_sheets>>
    /\ UNCHANGED <<first_run, warning, header_row, lastRowNum, rows_read, columns, parameters,
                   row_num, printed, ppc>>
    /\ UNCHANGED <<treeVars, applyVars, pathVars>>

\* get_and_write_contribution_tree, lines 229-235, and create_index_sheet,
\* lines 407-427, up to the loop over the impact categories
create_index_sheet ==
    /\ mpc = "create_index_sheet"
    /\ UNCHANGED used
    /\ LET r == createSheet(target, "Upstream tree sheet index")
       IN  /\ target' = r.target
           /\ error' = r.error
           /\ mpc' = IF r.error # None THEN "raised" ELSE "trees"
    /\ category_i' = 0
    /\ UNCHANGED <<lca_results, calculations, impact_categories, upstream_sheets,
                   sheet_names>>
    /\ UNCHANGED <<first_run, warning, header_row, lastRowNum, rows_read, columns, parameters,
                   row_num, printed, ppc>>
    /\ UNCHANGED <<treeVars, applyVars, pathVars>>

\* get_and_write_contribution_tree, line 227
get_and_write_contribution_tree ==
    /\ mpc = "apply"
    /\ ParametersSet
    /\ get_result_no_arg("delete_upstream_sheet")
    /\ UNCHANGED category_i
    /\ UNCHANGED <<impact_categories, upstream_sheets, target, sheet_names>>
    /\ UNCHANGED <<first_run, warning, header_row, lastRowNum, rows_read, columns, parameters,
                   row_num, printed, ppc>>
    /\ UNCHANGED <<treeVars, applyVars, pathVars>>

\* get_and_write_contribution_tree, lines 237-238, and create_upstream_sheet,
\* lines 513-524, up to the call of write_sheet: one turn of the loop, which
\* begins when the sheet of the turn before is written.
create_upstream_sheet ==
    /\ mpc = "trees"
    /\ UNCHANGED used
    /\ pc \in {"idle", "done"}
    /\ category_i < impact_categories
    /\ lca_results # NoResult
    /\ LET r == createSheet(target, UpstreamTreeName(category_i + 1))
       IN  IF r.error # None
           THEN /\ error' = r.error
                /\ mpc' = "raised"
                /\ UNCHANGED <<category_i, upstream_sheets, target, treeVars>>
           ELSE /\ target' = r.target
                /\ category_i' = category_i + 1
                /\ upstream_sheets' = Append(upstream_sheets, category_i + 1)
                /\ tree' \in MainTrees
                /\ total_result' = NoNumber
                /\ max_column' = NoNumber
                /\ row_index' = NoNumber
                /\ results' = <<>>
                /\ sheet' = <<>>
                /\ stack' = <<>>
                /\ visits' = <<>>
                /\ asked' = {}
                /\ pc' = "init"
                /\ grids' = <<>>
                /\ UNCHANGED alpha
                /\ UNCHANGED <<max_depth, min_contribution, row_ceiling>>
                /\ UNCHANGED <<mpc, error>>
    /\ UNCHANGED <<lca_results, calculations, impact_categories, sheet_names>>
    /\ UNCHANGED <<first_run, warning, header_row, lastRowNum, rows_read, columns, parameters,
                   row_num, printed, ppc>>
    /\ UNCHANGED <<applyVars, pathVars>>

\* main, line 561, after the loop of get_and_write_contribution_tree
write_impact_calculation_results ==
    /\ mpc = "trees"
    /\ pc \in {"idle", "done"}
    /\ ~(category_i < impact_categories)
    /\ get_result_no_arg("main_components")
    /\ UNCHANGED <<impact_categories, category_i, upstream_sheets, target,
                   sheet_names>>
    /\ UNCHANGED <<first_run, warning, header_row, lastRowNum, rows_read, columns, parameters,
                   row_num, printed, ppc>>
    /\ UNCHANGED <<treeVars, applyVars, pathVars>>

\* main, line 562
write_main_components_results ==
    /\ mpc = "main_components"
    /\ get_result_no_arg("esg")
    /\ UNCHANGED <<impact_categories, category_i, upstream_sheets, target,
                   sheet_names>>
    /\ UNCHANGED <<first_run, warning, header_row, lastRowNum, rows_read, columns, parameters,
                   row_num, printed, ppc>>
    /\ UNCHANGED <<treeVars, applyVars, pathVars>>

\* main, line 563
write_esg_impact_calculation_results ==
    /\ mpc = "esg"
    /\ Calculate(TRUE, TRUE, "ced")
    /\ UNCHANGED <<impact_categories, category_i, upstream_sheets, target,
                   sheet_names>>
    /\ UNCHANGED <<first_run, warning, header_row, lastRowNum, rows_read, columns, parameters,
                   row_num, printed, ppc>>
    /\ UNCHANGED <<treeVars, applyVars, pathVars>>

\* main, line 564
write_cumulative_energy_demand_results ==
    /\ mpc = "ced"
    /\ Calculate(FALSE, FALSE, "write")
    /\ UNCHANGED <<impact_categories, category_i, upstream_sheets, target,
                   sheet_names>>
    /\ UNCHANGED <<first_run, warning, header_row, lastRowNum, rows_read, columns, parameters,
                   row_num, printed, ppc>>
    /\ UNCHANGED <<treeVars, applyVars, pathVars>>

\* main, lines 566-573: Lco2Modeler.write and the end of main
write ==
    /\ mpc = "write"
    /\ UNCHANGED used
    /\ mpc' = "returned"
    /\ UNCHANGED <<lca_results, calculations, impact_categories, category_i,
                   upstream_sheets, target, sheet_names>>
    /\ UNCHANGED <<treeVars, parseVars, applyVars, pathVars>>

\* The workbooks main is run on: the template, the template after a run
\* that added the index sheet and an upstream-tree sheet, and such workbooks
\* with further sheets behind the added ones.
MainTargets ==
    {<<"Parameters check", "LC stages_EF">>,
     <<"Parameters check", "LC stages_EF", "Upstream tree sheet index",
       "Upstream tree 1">>,
     <<"Parameters check", "Upstream tree sheet index", "Upstream tree 1",
       "LC stages_EF", "Main components">>,
     <<"Parameters check", "Upstream tree 1", "Upstream tree sheet index",
       "LC stages_EF">>}

\* delete_upstream_sheet on any workbook of at most MaxSheets sheets
MaxSheets == 4

SheetNames ==
    {"Parameters check", "LC stages_EF", "Upstream tree sheet index",
     "Upstream tree 1", "Upstream tree 2"}

Workbooks ==
    {book \in SeqsUpTo(SheetNames, MaxSheets) :
        \A i, j \in 1..Len(book) : book[i] = book[j] => i = j}

InitDelete ==
    /\ TreeIdle /\ ParseIdle /\ ApplyIdle /\ PathIdle
    /\ mpc = "delete_upstream_sheet"
    /\ lca_results = NoResult
    /\ calculations = <<>>
    /\ impact_categories = 0
    /\ category_i = 0
    /\ upstream_sheets = <<>>
    /\ target \in Workbooks
    /\ sheet_names = <<>>
    /\ used = <<>>

NextDelete ==
    delete_upstream_sheet

SpecDelete == InitDelete /\ [][NextDelete]_vars


\* main on any workbook, any two product systems and any number of impact
\* categories; main leaves the warning flag at its default.
InitMain ==
    /\ TreeIdle
    /\ PathIdle
    /\ first_run = NoRun
    /\ warning = TRUE
    /\ header_row \in HeaderRows
    /\ lastRowNum \in MainLastRows
    /\ rows_read = <<>>
    /\ columns = <<>>
    /\ parameters = <<>>
    /\ row_num = 0
    /\ printed = <<>>
    /\ error = None
    /\ ppc = "idle"
    /\ new_params = <<>>
    /\ loaded \in [1..2 -> MainSystems]
    /\ systems = loaded
    /\ db = loaded
    /\ apply_i = 0
    /\ mpc = "main"
    /\ lca_results = NoResult
    /\ calculations = <<>>
    /\ impact_categories \in 0..MaxCategories
    /\ category_i = 0
    /\ upstream_sheets = <<>>
    /\ target \in MainTargets
    /\ sheet_names = <<>>
    /\ used = <<>>

NextMain ==
    \/ main
    \/ (mpc = "parse" /\ NextParse)
    \/ set_systems_parameters
    \/ (mpc = "apply" /\ NextApply)
    \/ get_and_write_contribution_tree
    \/ delete_upstream_sheet
    \/ create_index_sheet
    \/ create_upstream_sheet
    \/ (mpc = "trees" /\ NextTree)
    \/ write_impact_calculation_results
    \/ write_main_components_results
    \/ write_esg_impact_calculation_results
    \/ write_cumulative_energy_demand_results
    \/ write

SpecMain == InitMain /\ [][NextMain]_vars

-----------------------------------------------------------------------------
(* One Lco2Modeler whose parameters are set, and on which                   *)
(* get_and_write_contribution_tree, write_impact_calculation_results and    *)
(* write_main_components_results are called in any order, with              *)
(* set_systems_parameters called again between them.                        *)

\* The calls of the three operations in one run
MaxCalls == 3

\* The mappings a later parse_workbook_parameters returns
LaterOverrides ==
    {ov \in Overrides : DOMAIN ov \subseteq {<<"Density", "global">>}}

\* write_impact_calculation_results, lines 240-257, called at any time
call_write_impact_calculation_results ==
    /\ mpc = "apply"
    /\ ParametersSet
    /\ Len(used) < MaxCalls
    /\ get_result_no_arg("apply")
    /\ UNCHANGED <<impact_categories, category_i, upstream_sheets, target,
                   sheet_names>>
    /\ UNCHANGED <<first_run, warning, header_row, lastRowNum, rows_read, columns,
                   parameters, row_num, printed, ppc>>
    /\ UNCHANGED <<treeVars, applyVars, pathVars>>

\* write_main_components_results, lines 259-287, called at any time
call_write_main_components_results ==
    /\ mpc = "apply"
    /\ ParametersSet
    /\ Len(used) < MaxCalls
    /\ get_result_no_arg("apply")
    /\ UNCHANGED <<impact_categories, category_i, upstream_sheets, target,
                   sheet_names>>
    /\ UNCHANGED <<first_run, warning, header_row, lastRowNum, rows_read, columns,
                   parameters, row_num, printed, ppc>>
    /\ UNCHANGED <<treeVars, applyVars, pathVars>>

\* get_and_write_contribution_tree, lines 237-238: the loop has ended
contribution_tree_return ==
    /\ mpc = "trees"
    /\ pc \in {"idle", "done"}
    /\ ~(category_i < impact_categories)
    /\ mpc' = "apply"
    /\ UNCHANGED <<lca_results, calculations, impact_categories, category_i,
                   upstream_sheets, target, sheet_names, used>>
    /\ UNCHANGED <<treeVars, parseVars, applyVars, pathVars>>

\* set_systems_parameters, lines 204-207, called again: line 205 with the
\* mapping of another sheet 'Parameters check'
set_systems_parameters_again ==
    /\ mpc = "apply"
    /\ ParametersSet
    /\ new_params' \in LaterOverrides
    /\ apply_i' = 0
    /\ UNCHANGED <<loaded, systems, db>>
    /\ UNCHANGED <<treeVars, parseVars, mainVars, pathVars>>

InitCache ==
    /\ TreeIdle /\ ParseIdle /\ PathIdle
    /\ new_params = <<>>
    /\ loaded \in [1..2 -> MainSystems]
    /\ systems = loaded
    /\ db = loaded
    /\ apply_i = Len(systems)
    /\ mpc = "apply"
    /\ lca_results = NoResult
    /\ calculations = <<>>
    /\ impact_categories \in 0..1
    /\ category_i = 0
    /\ upstream_sheets = <<>>
    /\ target = <<"Parameters check", "LC stages_EF">>
    /\ sheet_names = <<>>
    /\ used = <<>>

NextCache ==
    \/ (Len(used) < MaxCalls /\ get_and_write_contribution_tree)
    \/ delete_upstream_sheet
    \/ create_index_sheet
    \/ create_upstream_sheet
    \/ (mpc = "trees" /\ NextTree)
    \/ contribution_tree_return
    \/ call_write_impact_calculation_results
    \/ call_write_main_components_results
    \/ set_systems_parameters_again
    \/ (mpc = "apply" /\ NextApply)

SpecCache == InitCache /\ [][NextCache]_vars

-----------------------------------------------------------------------------
(* Properties of the traversal.                                            *)

Emitted == {visits[k] : k \in 1..Len(visits)}

\* The nodes of a path, root first.
RECURSIVE NodesOf(_)
NodesOf(path) ==
    IF path.prefix = NoPath THEN <<path.node>>
    ELSE Append(NodesOf(path.prefix), path.node)

\* The paths of the children of the node of path p, in the graph's order.
ChildPaths(p) ==
    {append(p, tree.childs[p.node][i]) : i \in 1..Len(tree.childs[p.node])}

\* C1: Depth bound.  With the depth limit d = max_depth, no path handed to
\* write is longer than d, and tree.childs is never called for the node of a
\* path of length d (or longer).
C1_DepthBound ==
    /\ \A p \in Emitted : p.length <= max_depth
    /\ \A p \in asked : p.length < max_depth

\* A finished traversal with limit MAX_DEPTH that wrote a node at that depth
\* which has children in the graph, none of them requested.
C1_Witness ==
    /\ pc = "done"
    /\ max_depth = MAX_DEPTH
    /\ \E p \in Emitted :
          /\ p.length = max_depth
          /\ tree.childs[p.node] # <<>>
          /\ p \notin asked

\* C2: Recurrence pruning, for maxRecurrence = 1.  No path handed to write
\* holds the provider of its own node more than once (the node included), so
\* none holds it more than maxRecurrence + 1 = 2 times either.
C2_RecurrencePruning ==
    \A p \in Emitted : count(p, tree.provider[p.node]) <= 1

\* C3: Zero-result exclusion.  Whatever the depth limit, the contribution
\* threshold and the row ceiling, no path handed to write and no path whose
\* children were requested holds a node whose result is 0.
C3_ZeroResultExclusion ==
    \A p \in Emitted \cup asked :
        \A i \in 1..Len(NodesOf(p)) : tree.result[NodesOf(p)[i]] # 0

\* A finished traversal, stopped neither by the ceiling nor by the threshold,
\* in which a written node has a child of result 0 that itself has a child
\* of non-zero result.
C3_Witness ==
    /\ pc = "done"
    /\ row_index < row_ceiling
    /\ min_contribution = Float(MIN_CONTRIBUTION)
    /\ \E p \in asked : \E q \in ChildPaths(p) :
          /\ tree.result[q.node] = 0
          /\ \E r \in ChildPaths(q) : tree.result[r.node] # 0

\* C4: Row ceiling.  With the ceiling N = row_ceiling at most N paths are
\* handed to write (one per row below the ceiling, so row_index never passes
\* N), and write_sheet is never stuck before it is done.
C4_RowCeiling ==
    /\ Len(visits) <= row_ceiling
    /\ pc # "init" => /\ row_index <= row_ceiling
                      /\ Len(visits) = row_index - 1
    /\ pc # "done" => ENABLED (write_sheet \/ traverse \/ write_results)

\* A finished traversal that stopped at the small ceiling although a child
\* of a written node, of non-zero result and within the depth limit, was
\* still to be written.
C4_Witness ==
    /\ pc = "done"
    /\ row_ceiling = SmallCeiling
    /\ row_index = row_ceiling
    /\ min_contribution = Float(MIN_CONTRIBUTION)
    /\ \E p \in asked : \E q \in ChildPaths(p) :
          /\ tree.result[q.node] # 0
          /\ q \notin Emitted

C11_HeaderValueColumns ==
    (pc = "done" /\ visits # <<>>) =>
        /\ <<1, max_column + 1>> \in DOMAIN sheet
        /\ sheet[<<1, max_column + 1>>].kind = "result_header"
        /\ <<1, max_column + 2>> \in DOMAIN sheet
        /\ sheet[<<1, max_column + 2>>] = Text("Percentage [%]")

\* The greatest path length among the written paths.
MaxLength ==
    CHOOSE n \in {visits[k].length : k \in 1..Len(visits)} :
        \A k \in 1..Len(visits) : visits[k].length <= n

\* C12: Result column placement.  While and after paths are written,
\* max_column is the greatest length of a written path.  On the finished
\* sheet the row of every written path holds its result at column
\* max_column + 1 and a percentage at column max_column + 2, every label is
\* at a column up to max_column, and no number is at a column that holds the
\* label position of any written path.
C12_ResultColumnPlacement ==
    visits # <<>> =>
        /\ max_column = MaxLength
        /\ pc = "done" =>
              /\ \A k \in 1..Len(visits) :
                    /\ <<k + 1, max_column + 1>> \in DOMAIN sheet
                    /\ sheet[<<k + 1, max_column + 1>>]
                           = Number(Float(tree.result[visits[k].node]))
                    /\ <<k + 1, max_column + 2>> \in DOMAIN sheet
                    /\ sheet[<<k + 1, max_column + 2>>].kind = "number"
              /\ \A c \in DOMAIN sheet :
                    c[1] >= 2 =>
                        /\ sheet[c].kind = "text" => c[2] <= max_column
                        /\ sheet[c].kind = "number" =>
                              \A k \in 1..Len(visits) : c[2] > visits[k].length

\* A finished sheet whose last written path is shorter than the longest one,
\* the longest one having a label.
C12_Witness ==
    /\ pc = "done"
    /\ visits # <<>>
    /\ visits[Len(visits)].length < max_column
    /\ \E k \in 1..Len(visits) :
          /\ visits[k].length = max_column
          /\ <<k + 1, max_column>> \in DOMAIN sheet

\* The node of the path has a provider with a process, whose name write puts
\* on the sheet.
HasLabel(path) ==
    /\ tree.provider[path.node] # None
    /\ ProcessOf(tree.provider[path.node]) # NoProcess

\* The cells of a row of the sheet.
RowCells(r) == {c \in DOMAIN sheet : c[1] = r}

\* C13: Row alignment.  The k-th written path (k = 1, 2, ...) has sheet row
\* k + 1, that is row k + 2 counting the paths from 0: the row holds the label
\* of the path at the column of its length if its node has a provider with a
\* process, no label otherwise, once the sheet is finished the result and the
\* percentage of the path, and nothing else; no row below the header belongs
\* to no written path.
C13_RowAlignment ==
    /\ \A c \in DOMAIN sheet : c[1] >= 2 => c[1] <= Len(visits) + 1
    /\ \A k \in 1..Len(visits) :
          LET path == visits[k]
              label == <<k + 1, path.length>>
              labels == IF HasLabel(path) THEN {label} ELSE {}
              values == IF pc = "done"
                        THEN {<<k + 1, max_column + 1>>, <<k + 1, max_column + 2>>}
                        ELSE {}
          IN  /\ RowCells(k + 1) = labels \cup values
              /\ HasLabel(path) =>
                    sheet[label] = Text(ProcessOf(tree.provider[path.node]).name)
              /\ pc = "done" =>
                    /\ sheet[<<k + 1, max_column + 1>>]
                           = Number(Float(tree.result[path.node]))
                    /\ sheet[<<k + 1, max_column + 2>>]
                           = Number(Percentage(tree.result[path.node],
                                               tree.result[tree.root]))

\* A finished sheet on which a path without label is followed by a path with
\* a label.
C13_Witness ==
    /\ pc = "done"
    /\ \E k \in 1..(Len(visits) - 1) :
          /\ ~HasLabel(visits[k])
          /\ HasLabel(visits[k + 1])
          /\ RowCells(k + 1) = {<<k + 1, max_column + 1>>, <<k + 1, max_column + 2>>}

\* s is t with some of its elements left out.
RECURSIVE IsSubseq(_, _)
IsSubseq(s, t) ==
    IF s = <<>> THEN TRUE
    ELSE IF t = <<>> THEN FALSE
    ELSE IF Head(s) = Head(t) THEN IsSubseq(Tail(s), Tail(t))
    ELSE IsSubseq(s, Tail(t))

\* m is the last path written before the k-th that is one shorter than it.
IsParentIndex(m, k) ==
    /\ m \in 1..(k - 1)
    /\ visits[m].length = visits[k].length - 1
    /\ \A j \in (m + 1)..(k - 1) : visits[j].length >= visits[k].length

\* The nodes of the paths written as children of the m-th written path, in
\* the order they were written.
WrittenChildren(m) ==
    LET indices == SelectSeq([k \in 1..Len(visits) |-> k],
                             LAMBDA k : IsParentIndex(m, k))
    IN  [i \in 1..Len(indices) |-> visits[indices[i]].node]

\* C14: Pre-order emission.  The first written path is the root alone, at
\* length (column) 0.  Every later written path extends the last path written
\* before it that is one shorter: it comes after its parent, and everything
\* written between the two lies below the parent, so it comes before any
\* later sibling of its parent.  The label of a path is at the column of its
\* length, the length of a written path is at most one more than that of the
\* path written before it, and when the traversal is over the written
\* children of every path appear in the order of tree.childs.
C14_PreOrderEmission ==
    /\ visits # <<>> => visits[1] = Path(tree.root, NoPath)
    /\ \A k \in 2..Len(visits) :
          /\ visits[k].length <= visits[k - 1].length + 1
          /\ \E m \in 1..(k - 1) : IsParentIndex(m, k)
          /\ \A m \in 1..(k - 1) :
                IsParentIndex(m, k) => visits[k].prefix = visits[m]
    /\ \A m \in 1..Len(visits) :
          HasLabel(visits[m]) => <<m + 1, visits[m].length>> \in DOMAIN sheet
    /\ pc = "done" =>
          \A m \in 1..Len(visits) :
              IsSubseq(WrittenChildren(m), tree.childs[visits[m].node])

\* A finished sheet where a second child of the root, another node than the
\* first, was written after a grandchild.
C14_Witness ==
    /\ pc = "done"
    /\ \E k \in 4..Len(visits) :
          /\ visits[k].length = 1
          /\ visits[k - 1].length >= 2
          /\ visits[2].length = 1
          /\ visits[2].node # visits[k].node

\* |result / T| >= min_contribution, in integers.
ClearsThreshold(result, T) ==
    absInt(result) * min_contribution[2] >= min_contribution[1] * absInt(T)

\* C15: Magnitude pruning.  When the root result T is not 0, every node of a
\* written path and of a path whose children were requested has
\* |result / T| >= min_contribution: a node below the threshold is neither
\* written nor descended into, whatever its descendants.
C15_MagnitudePruning ==
    (pc # "init" /\ tree.result[tree.root] # 0) =>
        \A p \in Emitted \cup asked :
            \A i \in 1..Len(NodesOf(p)) :
                ClearsThreshold(tree.result[NodesOf(p)[i]], tree.result[tree.root])

\* A finished traversal with threshold 1/2, not stopped by the ceiling, in
\* which a written node has a child of non-zero result below the threshold,
\* not written, that itself has a child clearing the threshold.
C15_Witness ==
    /\ pc = "done"
    /\ row_index < row_ceiling
    /\ min_contribution = Div(1, 2)
    /\ \E p \in asked : \E q \in ChildPaths(p) :
          /\ tree.result[q.node] # 0
          /\ ~ClearsThreshold(tree.result[q.node], tree.result[tree.root])
          /\ q \notin Emitted
          /\ \E r \in ChildPaths(q) :
                ClearsThreshold(tree.result[r.node], tree.result[tree.root])

\* The greatest number of children of a node of the graph.
Fanout ==
    CHOOSE n \in {Len(tree.childs[x]) : x \in Nodes} :
        \A x \in Nodes : Len(tree.childs[x]) <= n

\* A bound on the calls of traverse made for a path of a given length, the
\* call for the path itself included.
RECURSIVE CallsBound(_)
CallsBound(length) ==
    IF length > max_depth - 1 THEN 1
    ELSE 1 + Fanout * CallsBound(length + 1)

RECURSIVE PendingBound(_)
PendingBound(calls) ==
    IF calls = <<>> THEN 0
    ELSE CallsBound(Head(calls).length) + PendingBound(Tail(calls))

\* A bound on the steps write_sheet has left.
StepsLeft ==
    CASE pc = "init" -> CallsBound(0) + 2
      [] pc = "traverse" -> PendingBound(stack) + 1
      [] OTHER -> 0

\* C19: Termination.  For every graph, cycles included, write_sheet returns:
\* a call that is not over can always go on, every step lowers a natural
\* number that bounds the steps left, and under fair running the call is
\* eventually over.  The number of written paths never passes the bound on
\* the calls of traverse, which depends on the depth limit and the greatest
\* number of children alone.
C19_Termination ==
    /\ [](pc # "done" => ENABLED NextTree)
    /\ [](StepsLeft \in Nat /\ Len(visits) <= CallsBound(0))
    /\ [][StepsLeft' < StepsLeft]_vars
    /\ <>(pc = "done")

\* A finished traversal of a graph in which both nodes are on a cycle, which
\* went round the cycle as far as the depth limit MAX_DEPTH allows.
C19_Witness ==
    /\ pc = "done"
    /\ max_depth = MAX_DEPTH
    /\ tree.childs[1] = <<2, 2>>
    /\ tree.childs[2] = <<1, 1>>
    /\ \E k \in 1..Len(visits) : visits[k].length = MAX_DEPTH

\* The cells create_header writes.
HeaderCellsOfSheet ==
    {<<0, index_of("A")>>, <<1, index_of("A")>>, <<1, index_of("F")>>,
     <<1, index_of("G")>>}

\* C23: Zero root result.  When the result of the root is 0, write_sheet
\* writes no path, not even the root, requests no children and writes no
\* result or percentage: the sheet holds the header cells alone.  So whenever
\* a path was written the total is not 0.
C23_ZeroRootWritesNothing ==
    /\ (pc \in {"traverse", "done"} /\ tree.result[tree.root] = 0) =>
          /\ visits = <<>>
          /\ results = <<>>
          /\ asked = {}
          /\ DOMAIN sheet = HeaderCellsOfSheet
          /\ \A c \in DOMAIN sheet : sheet[c].kind # "number"
    /\ visits # <<>> => total_result # 0

\* A finished sheet for a root of result 0 that has a child of another result.
C23_Witness ==
    /\ pc = "done"
    /\ tree.result[tree.root] = 0
    /\ \E i \in 1..Len(tree.childs[tree.root]) :
          tree.result[tree.childs[tree.root][i]] # 0

-----------------------------------------------------------------------------
(* Properties of the parser.                                               *)

HeaderComplete == RequiredColumns \subseteq {header_row[i].text :
                      i \in {j \in 1..Len(header_row) : isPresent(header_row[j])}}

AllPresent(row) ==
    isPresent(row.name) /\ isPresent(row.modified_value) /\ isPresent(row.context)

\* A data row whose three cells are there and can be read as text, number
\* and text.
Parseable(row) ==
    /\ AllPresent(row)
    /\ StringReadable(row.name)
    /\ NumericReadable(row.modified_value)
    /\ StringReadable(row.context)

KeyOf(row) == <<getStringCellValue(row.name), getStringCellValue(row.context)>>

ValueOf(row) == getNumericCellValue(row.modified_value)

\* The rows read so far that are parseable and have the given key.
RowsWith(key) ==
    {i \in 1..Len(rows_read) : Parseable(rows_read[i]) /\ KeyOf(rows_read[i]) = key}

LastRowWith(key) == CHOOSE i \in RowsWith(key) : \A j \in RowsWith(key) : j <= i

LastRead == rows_read[Len(rows_read)]

\* C7: Override last-write-wins.  While parse_workbook_parameters runs and
\* when it has returned, the mapping has exactly one entry per key of a
\* parseable row read, holding the value of the last such row; and a
\* parseable row, a repeated key included, never raises.
C7_LastWriteWins ==
    /\ ppc \in {"rows", "returned"} =>
          /\ DOMAIN parameters =
                {KeyOf(rows_read[i]) :
                    i \in {j \in 1..Len(rows_read) : Parseable(rows_read[j])}}
          /\ \A key \in DOMAIN parameters :
                parameters[key] = ValueOf(rows_read[LastRowWith(key)])
    /\ (ppc = "raised" /\ rows_read # <<>>) => ~Parseable(LastRead)

\* The parser has returned after two parseable rows with one key and with
\* values 5 then 9; the mapping holds 9.
C7_Witness ==
    /\ ppc = "returned"
    /\ Len(rows_read) = 2
    /\ Parseable(rows_read[1]) /\ Parseable(rows_read[2])
    /\ KeyOf(rows_read[1]) = KeyOf(rows_read[2])
    /\ ValueOf(rows_read[1]) = 5 /\ ValueOf(rows_read[2]) = 9
    /\ parameters[KeyOf(rows_read[2])] = 9

\* C8: Extraction failure is soft.  A row whose three cells are present but
\* of which one cannot be read (text where a number is needed, or a number
\* where text is needed) does not make parse_workbook_parameters raise.
C8_ExtractionFailureSoft ==
    (rows_read # <<>> /\ AllPresent(LastRead) /\ ~Parseable(LastRead))
        => ppc # "raised"

\* C9: Missing header column is soft.  With a required column name missing
\* from the header row, parse_workbook_parameters does not raise, and when
\* it has returned the mapping is empty.
C9_MissingHeaderSoft ==
    (ppc # "start" /\ ~HeaderComplete) =>
        /\ ppc # "raised"
        /\ ppc = "returned" => parameters = <<>>

HasAbsentOrEmpty(row) ==
    \E cell \in {row.name, row.modified_value, row.context} :
        cell.kind \in {"absent", "blank"}

\* C10: Absent or empty cell is soft.  A row with an absent or empty needed
\* cell does not make parse_workbook_parameters raise, and every entry of the
\* mapping comes from a row without such a cell.
C10_AbsentOrEmptySoft ==
    /\ (rows_read # <<>> /\ HasAbsentOrEmpty(LastRead)) => ppc # "raised"
    /\ \A key \in DOMAIN parameters :
          \E i \in RowsWith(key) :
              /\ ~HasAbsentOrEmpty(rows_read[i])
              /\ parameters[key] = ValueOf(rows_read[i])

-----------------------------------------------------------------------------
(* Properties of the applier.                                              *)

\* The context of a parameter as the claims define it: the name of the
\* owning process when it is scoped, the sentinel "global" when it is not.
OwnContext(param) ==
    CASE param.contextId = None -> "global"
      [] param.contextId = "idA" -> "ProcessA"
      [] param.contextId = "idB" -> "ProcessB"

\* The parameters of the systems the for loop has handled: <<i, s, k>>.
Handled ==
    {x \in (1..apply_i) \X (1..2) \X (1..(MaxParams + 1)) :
        /\ x[2] <= Len(systems[x[1]].parameterSets)
        /\ x[3] <= Len(systems[x[1]].parameterSets[x[2]].parameters)}

ParamAt(sys, x) == sys[x[1]].parameterSets[x[2]].parameters[x[3]]

\* C6: Override scoping.  After set_system_parameters, a parameter for whose
\* (name, context) the mapping has an entry holds that entry's value, and any
\* other parameter holds the value it had: no parameter is set from an entry
\* of another name or another context.
C6_OverrideScoping ==
    \A x \in Handled :
        LET param == ParamAt(systems, x)
            key == <<param.name, OwnContext(param)>>
        IN  /\ param.name = ParamAt(loaded, x).name
            /\ param.contextId = ParamAt(loaded, x).contextId
            /\ IF key \in DOMAIN new_params
               THEN param.value = new_params[key]
               ELSE param.value = ParamAt(loaded, x).value

\* The example: with {(Density, global): 5, (Density, ProcessA): 9} applied,
\* a system holds a Density scoped to ProcessA of value 9 and an unscoped
\* Density of value 5.
C6_Witness ==
    /\ apply_i >= 1
    /\ <<"Density", "global">> \in DOMAIN new_params
    /\ <<"Density", "ProcessA">> \in DOMAIN new_params
    /\ new_params[<<"Density", "global">>] = 5
    /\ new_params[<<"Density", "ProcessA">>] = 9
    /\ \E x, y \in Handled :
          /\ x[1] = 1 /\ y[1] = 1
          /\ ParamAt(systems, x) = [name |-> "Density", contextId |-> "idA", value |-> 9]
          /\ ParamAt(systems, y) = [name |-> "Density", contextId |-> None, value |-> 5]

\* C16: Apply frame.  Once set_system_parameters has handled a system, every
\* parameter of it for whose (name, context) the mapping has no entry is, in
\* memory and in the database, the parameter that was loaded; a system with
\* no parameter sets and a set with no parameters are unchanged; the call is
\* always able to run, and the system not yet handled is untouched.
C16_ApplyFrame ==
    /\ apply_i < Len(systems) => ENABLED set_system_parameters
    /\ \A i \in (apply_i + 1)..Len(systems) :
          systems[i] = loaded[i] /\ db[i] = loaded[i]
    /\ \A i \in 1..apply_i :
          /\ loaded[i].parameterSets = <<>> =>
                systems[i] = loaded[i] /\ db[i] = loaded[i]
          /\ Len(systems[i].parameterSets) = Len(loaded[i].parameterSets)
          /\ \A s \in 1..Len(loaded[i].parameterSets) :
                loaded[i].parameterSets[s].parameters = <<>> =>
                    /\ systems[i].parameterSets[s] = loaded[i].parameterSets[s]
                    /\ db[i].parameterSets[s] = loaded[i].parameterSets[s]
    /\ \A x \in Handled :
          LET before == ParamAt(loaded, x)
          IN  <<before.name, OwnContext(before)>> \notin DOMAIN new_params =>
                  /\ ParamAt(systems, x) = before
                  /\ ParamAt(db, x) = before

\* Both systems handled under a mapping with entries for Density, global and
\* in ProcessA: one system has no parameter sets, the other an empty set and
\* a set with a Density scoped to ProcessB, which kept its value.
C16_Witness ==
    /\ apply_i = 2
    /\ DOMAIN new_params = {<<"Density", "global">>, <<"Density", "ProcessA">>}
    /\ systems[1].parameterSets = <<>>
    /\ Len(systems[2].parameterSets) = 2
    /\ systems[2].parameterSets[1].parameters = <<>>
    /\ systems[2].parameterSets[2].parameters
           = <<[name |-> "Density", contextId |-> "idB", value |-> 1]>>

\* The parameters of all loaded systems: <<i, s, k>>.
AllParams ==
    {x \in (1..Len(systems)) \X (1..2) \X (1..(MaxParams + 1)) :
        /\ x[2] <= Len(systems[x[1]].parameterSets)
        /\ x[3] <= Len(systems[x[1]].parameterSets[x[2]].parameters)}

\* C17: Apply completeness.  When set_systems_parameters has returned, in
\* every parameter set of the selected system and of the ESG system, every
\* parameter whose (name, context) is a key of the mapping has the mapped
\* value, in memory and in the database.
C17_ApplyCompleteness ==
    apply_i = Len(systems) =>
        \A x \in AllParams :
            LET param == ParamAt(systems, x)
                key == <<param.name, OwnContext(param)>>
            IN  key \in DOMAIN new_params =>
                    /\ param.value = new_params[key]
                    /\ ParamAt(db, x).value = new_params[key]

\* set_systems_parameters has returned, and a parameter of the second set of
\* the selected system and one of the second set of the ESG system were set
\* to different mapped values.
C17_Witness ==
    /\ apply_i = 2
    /\ \E x, y \in AllParams :
          /\ x[1] = 1 /\ x[2] = 2
          /\ y[1] = 2 /\ y[2] = 2
          /\ ParamAt(systems, x).value = 5
          /\ ParamAt(systems, y).value = 9
          /\ ParamAt(loaded, x).value = 1

-----------------------------------------------------------------------------
(* Properties of main.                                                     *)

\* C18: Order of phases.  In every run of main, when the calculation engine
\* has been invoked the parser has returned, its mapping has been applied to
\* both systems, and every setup the engine was given holds the mapped value
\* for each parameter with an entry; the first invocation is the one for the
\* selected system with the method 'EF 3.0'.  While and after an
\* upstream-tree sheet is written the engine has returned that result.  The
\* sheets are created one per impact category, in order, each after the one
\* before is written, and all of them before main goes on.
C18_OrderOfPhases ==
    /\ calculations # <<>> =>
          /\ ppc = "returned"
          /\ new_params = parameters
          /\ apply_i = Len(systems)
          /\ calculations[1].system = "system"
          /\ calculations[1].impact_method = "ef3_method"
          /\ \A c \in 1..Len(calculations) :
                \A k \in 1..Len(calculations[c].parameters) :
                    LET param == calculations[c].parameters[k]
                        key == <<param.name, OwnContext(param)>>
                    IN  key \in DOMAIN parameters => param.value = parameters[key]
    /\ pc # "idle" =>
          /\ calculations # <<>>
          /\ lca_results = [setup |-> calculations[1], call |-> 1]
          /\ mpc # "raised" => category_i >= 1
    /\ upstream_sheets = [i \in 1..category_i |-> i]
    /\ category_i <= impact_categories
    /\ mpc \in {"main_components", "esg", "ced", "write"} =>
          /\ category_i = impact_categories
          /\ pc = IF impact_categories = 0 THEN "idle" ELSE "done"

\* A run of main that returned after two upstream-tree sheets and three
\* calculations, the first of them with an overridden parameter.
C18_Witness ==
    /\ mpc = "returned"
    /\ impact_categories = 2
    /\ upstream_sheets = <<1, 2>>
    /\ Len(calculations) = 3
    /\ calculations[1].parameters[1].value # loaded[1].parameterSets[1].parameters[1].value
    /\ pc = "done"
    /\ Len(visits) = 2

-----------------------------------------------------------------------------
(* Properties of Path.                                                     *)

\* The positions of a path, root first, whose node has the given provider.
Occurrences(p, tech_flow) ==
    {i \in 1..Len(NodesOf(p)) : tree.provider[NodesOf(p)[i]] = tech_flow}

\* C20: Path.count(tech_flow) returns the number of nodes of the path, from
\* the root to the terminal node included, whose provider equals tech_flow:
\* 0 when there is none, and never more than length + 1, the number of nodes
\* of the path.
C20_CountOccurrences ==
    counted # NoCount =>
        /\ counted.count = Cardinality(Occurrences(the_path, counted.tech_flow))
        /\ Occurrences(the_path, counted.tech_flow) = {} => counted.count = 0
        /\ Len(NodesOf(the_path)) = the_path.length + 1
        /\ counted.count <= the_path.length + 1

\* A count of 2 on a path of four nodes: the terminal node and one node
\* before it have the provider asked for, the root has not.
C20_Witness ==
    /\ counted # NoCount
    /\ the_path.length = MaxPathLength
    /\ counted.count = 2
    /\ tree.provider[the_path.node] = counted.tech_flow
    /\ tree.provider[NodesOf(the_path)[1]] # counted.tech_flow

\* The number of prefix links from a path back to the root.
RECURSIVE Links(_)
Links(p) == IF p.prefix = NoPath THEN 0 ELSE 1 + Links(p.prefix)

\* C21: Path.append returns a new Path whose prefix is the path it was called
\* on, with its node, prefix and length as they were, and whose length is
\* one more; so the length of every path built from a root by appends is the
\* number of its prefix links, 0 for the root.
C21_AppendNewPath ==
    /\ [](the_path.length = Links(the_path))
    /\ [][the_path' # the_path =>
              /\ the_path'.prefix = the_path
              /\ the_path'.length = the_path.length + 1
              /\ the_path'.prefix.node = the_path.node
              /\ the_path'.prefix.prefix = the_path.prefix
              /\ the_path'.prefix.length = the_path.length]_vars

\* A path of four nodes built by three appends on a root, the nodes not all
\* the same.
C21_Witness ==
    /\ the_path.length = MaxPathLength
    /\ Links(the_path) = MaxPathLength
    /\ the_path.node # the_path.prefix.node
    /\ NodesOf(the_path)[1] = the_path.prefix.node

-----------------------------------------------------------------------------
(* Properties of the alpha script.                                         *)

\* The rows read, row 0 left out, that carry the name in a string cell and a
\* numeric modified value.
AlphaRowsNamed(name) ==
    {i \in 2..Len(rows_read) :
        /\ rows_read[i] # NoRow
        /\ rows_read[i].name = StringCell(name)
        /\ rows_read[i].modified_value.kind = "numeric"}

\* C22: update_parameter_set of the alpha script.  When it has returned on a
\* sheet with the columns 'Parameter' and 'Modified value', every parameter
\* of the set whose name is carried by a row with a numeric modified value
\* has the modified value of the last such row, rows after a row that
\* updated a parameter included.
C22_AlphaUpdate ==
    (ppc = "returned" /\ {"Parameter", "Modified value"} \subseteq DOMAIN columns) =>
        \A k \in 1..Len(systems[1].parameterSets[1].parameters) :
            LET param == systems[1].parameterSets[1].parameters[k]
                rows == AlphaRowsNamed(param.name)
            IN  rows # {} =>
                    \E i \in rows :
                        /\ \A j \in rows : j <= i
                        /\ param.value = rows_read[i].modified_value.number

-----------------------------------------------------------------------------
(* Properties of delete_upstream_sheet.                                    *)

\* The sheets of a workbook that are not upstream-tree sheets, in order
OtherSheets(book) ==
    SelectSeq(book, LAMBDA sheet_name : ~IsUpstreamTree(sheet_name))

DeleteCalled ==
    mpc \in {"create_index_sheet", "raised"} /\ calculations = <<>>

\* C24: for a workbook with any number of sheets whose name contains
\* 'Upstream tree', in any positions, delete_upstream_sheet returns, and
\* after it the workbook holds exactly the other sheets, in their original
\* relative order.
C24_DeleteUpstreamSheets ==
    DeleteCalled =>
        /\ mpc = "create_index_sheet"
        /\ target = OtherSheets(sheet_names)

-----------------------------------------------------------------------------
(* Properties of the warning flag.                                         *)

BothRunsEnded ==
    first_run # NoRun /\ ppc \in {"returned", "raised"}

\* C25: parse_workbook_parameters with warning = True and with
\* warning = False on the same workbook end the same way (both return or
\* both raise the same exception) and return the same mapping; the flag
\* only changes what is printed.
C25_WarningOnlyPrints ==
    BothRunsEnded =>
        /\ ppc = first_run.ppc
        /\ error = first_run.error
        /\ ppc = "returned" => parameters = first_run.parameters

-----------------------------------------------------------------------------
(* Properties of the result kept by get_result_no_arg.                     *)

\* The calls of the engine for the EF 3.0 method on the system that is not
\* the ESG one
DefaultCalculations ==
    SelectSeq(calculations,
              LAMBDA c : c.system = "system" /\ c.impact_method = "ef3_method")

\* C26: over any sequence of calls of get_and_write_contribution_tree,
\* write_impact_calculation_results and write_main_components_results on one
\* Lco2Modeler, the engine is called at most once for the EF 3.0 method on
\* the system, every one of the operations uses the result of that call, and
\* the result kept is never replaced once it is set, also when the
\* parameters are set again afterwards.
C26_ResultCaching ==
    /\ [](/\ Len(DefaultCalculations) <= 1
          /\ \A i \in 1..Len(used) : used[i] = lca_results)
    /\ [][lca_results # NoResult => lca_results' = lca_results]_vars

\* Three operations have used the result, and the parameters of the system
\* are no longer the ones it was calculated with.
C26_Witness ==
    /\ Len(used) = MaxCalls
    /\ Len(calculations) = 1
    /\ lca_results # NoResult
    /\ systems[1].parameterSets # <<>>
    /\ systems[1].parameterSets[1].parameters # lca_results.setup.parameters

-----------------------------------------------------------------------------
(* Properties of write_sheet called again.                                 *)

\* C27: write_sheet called twice on one UpstreamTreeSheet with the tree
\* unchanged leaves the grid that one call leaves, and after every call
\* row_index is the number of accumulated results plus one.
C27_WriteSheetRepeatable ==
    /\ Len(grids) >= 2 => grids[2] = grids[1]
    /\ pc = "done" => row_index = Len(results) + 1

-----------------------------------------------------------------------------
(* Properties of the two revisions of the tree writer.                     *)

\* No node has result 0 and every node has a provider with a process.
RevisionPrecondition ==
    \A n \in Nodes : tree.result[n] # 0 /\ HasName(n)

BothWritten == pc = "done" /\ alpha # NoAlpha

CellAt(s, row, column) ==
    IF <<row, column>> \in DOMAIN s THEN s[<<row, column>>] ELSE [kind |-> "none"]

\* The labels of a row: the columns 0 .. MAX_DEPTH that hold a text, with it
LabelsOf(s, row) ==
    {<<c, s[<<row, c>>]>> : c \in {c \in 0..MAX_DEPTH :
                                      /\ <<row, c>> \in DOMAIN s
                                      /\ s[<<row, c>>].kind = "text"}}

\* The written nodes, in the order of the rows
NodesWritten == [k \in 1..Len(visits) |-> visits[k].node]

\* The rows 2 .. row_index of both sheets, without the percentages
SameRowsButPercentage ==
    /\ alpha.pc = "done"
    /\ alpha.counter = row_index + 1
    /\ alpha.nodes = NodesWritten
    /\ \A row \in 2..row_index :
          /\ LabelsOf(alpha.sheet, row) = LabelsOf(sheet, row)
          /\ Cardinality(LabelsOf(sheet, row)) = 1
          /\ CellAt(alpha.sheet, row, index_of("F")) = CellAt(sheet, row, max_column + 1)
          /\ CellAt(sheet, row, max_column + 1).kind = "number"

PercentageOf(row) == CellAt(sheet, row, max_column + 2)

AlphaPercentageOf(row) == CellAt(alpha.sheet, row, index_of("G"))

\* Two floats whose difference is at most 2^(3 - MantissaBits) of the first
Close(p, q) ==
    LET D == IF p[2] > q[2] THEN p[2] ELSE q[2]
        A == p[1] * (D \div p[2])
        B == q[1] * (D \div q[2])
    IN  absInt(A - B) <= absInt(A) \div 2^(MantissaBits - 3)

\* C28 as stated: for a tree in which no node has result 0 and every node
\* has its provider, the alpha script and UpstreamTreeSheet write the same
\* data rows: the same nodes in the same order, each on the same row from
\* row 2 on, its label in the column of its depth, and the same result and
\* percentage values.
C28_RevisionEquivalence ==
    (BothWritten /\ RevisionPrecondition) =>
        /\ SameRowsButPercentage
        /\ \A row \in 2..row_index : AlphaPercentageOf(row) = PercentageOf(row)

\* C28 amended: the same, with percentage values that are equal up to the
\* rounding of the two float operations each revision computes them with.
C28_RevisionEquivalenceRounded ==
    (BothWritten /\ RevisionPrecondition) =>
        /\ SameRowsButPercentage
        /\ \A row \in 2..row_index :
              /\ PercentageOf(row).kind = "number"
              /\ AlphaPercentageOf(row).kind = "number"
              /\ Close(AlphaPercentageOf(row).value, PercentageOf(row).value)

\* Both revisions have written a tree of the precondition down to depth 4,
\* and on some row their percentages are different floats.
C28_Witness ==
    /\ BothWritten
    /\ RevisionPrecondition
    /\ \E k \in 1..Len(visits) : visits[k].length = MAX_DEPTH
    /\ \E row \in 2..row_index : AlphaPercentageOf(row) # PercentageOf(row)

=============================================================================
